---- MODULE Spec2Model ----
(***************************************************************************)
(* Booking lifecycle and date-conflict resolution of the tourism backend   *)
(* (src/src/controllers/bookings.controller.ts).                           *)
(*                                                                         *)
(* Every request handler is an async function: it runs without             *)
(* interruption up to an `await`, and other requests may run between the   *)
(* database operation it awaits and the next one.  Each action below is    *)
(* one such uninterrupted piece together with the database operation it    *)
(* ends in.                                                                *)
(***************************************************************************)
EXTENDS Integers, Sequences, FiniteSets, TLC

\* ------------------------------------------------------------------ bounds
NumProcs == 2       \* requests in flight at the same time
MaxRequests == 3    \* requests the server accepts in a run
MaxDate == 3        \* days are 0..MaxDate
MaxNow == 1         \* the clock runs 0..MaxNow

Procs == 1..NumProcs
Days == 0..MaxDate
BookingIds == 1..MaxRequests

\* ------------------------------------------------------- optional values
\* undefined / absent is the empty tuple, a present value v is <<v>>.
None == <<>>
Some(v) == <<v>>

\* ---------------------------------------------------------------- inputs
ListingTypes == {"homestay", "guide"}
ListingIds == {"L1", "L2"}
Reasons == {"plans changed", "found cheaper"}

\* A date string of the request body: one that parses to day d is written d,
\* one that `new Date` cannot parse is written NotADate.
NotADate == MaxDate + 1

\* `new Date(s)`: a Date with a time value, or an Invalid Date (time NaN).
ParseDate(s) ==
    IF s \in Days THEN [valid |-> TRUE, t |-> s] ELSE [valid |-> FALSE, t |-> 0]

\* A comparison that lets equal dates through.
DateLE_Strict(a, b) == a.valid /\ b.valid /\ a.t < b.t

\* `a <= b` on Dates: any comparison with an Invalid Date (NaN) is false.
DateLE(a, b) == a.valid /\ b.valid /\ a.t <= b.t

\* The listing stores: L1 is a homestay titled "Forest Home", L2 is a guide
\* named "Birsa"; findById on the other store finds nothing.
HomestayTitle(listingId) == IF listingId = "L1" THEN Some("Forest Home") ELSE None
GuideName(listingId) == IF listingId = "L2" THEN Some("Birsa") ELSE None

\* getListingTitle: the title/name found, or undefined when the lookup finds
\* nothing; when the lookup throws, the catch returns undefined.
GetListingTitle(listingType, listingId) ==
    LET found == IF listingType = "homestay" THEN HomestayTitle(listingId)
                 ELSE IF listingType = "guide" THEN GuideName(listingId)
                 ELSE None
    IN  {found, None}

\* ---------------------------------------------------------------- state
VARIABLES
    bookings,   \* the bookings collection, in insertion order; _id = index
    counter,    \* the durable booking-number counter
    issued,     \* history: the values getNextBookingNumber has returned
    now,        \* the clock
    effects,    \* history: per booking id, the transitions that reported success
    pc,         \* per request slot: where its handler is
    req,        \* per request slot: the request being handled
    loc,        \* per request slot: the handler's local variables
    started,    \* the number of requests accepted so far
    out,        \* the response sent by the step just taken, NoResp if none
    call        \* the latest direct call of hasDateConflict, with its result

vars == <<bookings, counter, issued, now, effects, pc, req, loc, started, out, call>>

\* ------------------------------------------------------------- records
NoInput ==
    [listingType |-> "", listingId |-> "", checkIn |-> None, checkOut |-> None,
     adults |-> None, name |-> "", email |-> "", total |-> 0]

NoReq == [kind |-> "none", input |-> NoInput, id |-> 0, reason |-> ""]

NoDate == [valid |-> FALSE, t |-> 0]

NoLoc ==
    [checkInDate |-> NoDate, checkOutDate |-> NoDate, listingTitle |-> None,
     bookingNumber |-> 0, id |-> 0, cancelledAt |-> 0, total |-> 0]

NoResp ==
    [code |-> 0, message |-> "", errors |-> <<>>, id |-> 0, status |-> "",
     cancellationReason |-> None, cancelledAt |-> None,
     refundAmount |-> 0, refundStatus |-> "",
     thrown |-> ""]     \* history: the operation whose rejection gave a 500

CreateReq(input) == [NoReq EXCEPT !.kind = "create", !.input = input]
CancelReq(id, reason) == [NoReq EXCEPT !.kind = "cancel", !.id = id, !.reason = reason]

\* sendError(res, message, code, errors)
SendError(message, code, errors) ==
    [NoResp EXCEPT !.code = code, !.message = message, !.errors = errors]

\* The catch block of createBooking answering a rejection that is not a
\* schema ValidationError; op names the operation that rejected.
CreateFailed(op) ==
    [SendError("Failed to create booking", 500, <<>>) EXCEPT !.thrown = op]

\* The handler of slot p answers request rq with r and returns.
Respond(p, rq, r) ==
    /\ out' = r
    /\ pc' = [pc EXCEPT ![p] = "idle"]
    /\ req' = [req EXCEPT ![p] = NoReq]
    /\ loc' = [loc EXCEPT ![p] = NoLoc]

\* The handler of slot p awaits its next database operation.
Await(p, rq, at, l) ==
    /\ pc' = [pc EXCEPT ![p] = at]
    /\ req' = [req EXCEPT ![p] = rq]
    /\ loc' = [loc EXCEPT ![p] = l]
    /\ out' = NoResp

\* ------------------------------------------------- createBooking, fields
\* A validation that returns at the first failing field.
ValidateFields_FirstOnly(input) ==
    IF input.listingType = "" \/ input.listingType \notin ListingTypes THEN <<"listingType">>
    ELSE IF input.listingId = "" THEN <<"listingId">>
    ELSE IF input.checkIn = None THEN <<"checkIn">>
    ELSE IF input.checkOut = None THEN <<"checkOut">>
    ELSE IF input.adults = None \/ input.adults[1] < 1 THEN <<"guests.adults">>
    ELSE IF input.name = "" THEN <<"guestDetails.name">>
    ELSE IF input.email = "" THEN <<"guestDetails.email">>
    ELSE <<>>

\* The field checks of createBooking, each pushing one error, in order.
ValidateFields(input) ==
    (IF input.listingType = "" \/ input.listingType \notin ListingTypes
        THEN <<"listingType">> ELSE <<>>)
    \o (IF input.listingId = "" THEN <<"listingId">> ELSE <<>>)
    \o (IF input.checkIn = None THEN <<"checkIn">> ELSE <<>>)
    \o (IF input.checkOut = None THEN <<"checkOut">> ELSE <<>>)
    \o (IF input.adults = None \/ input.adults[1] = 0 \/ input.adults[1] < 1
        THEN <<"guests.adults">> ELSE <<>>)
    \o (IF input.name = "" THEN <<"guestDetails.name">> ELSE <<>>)
    \o (IF input.email = "" THEN <<"guestDetails.email">> ELSE <<>>)

\* ------------------------------------------------------ hasDateConflict
\* A query whose comparisons include the boundary days.
HasDateConflict_Inclusive(listingId, checkIn, checkOut, excludeBookingId) ==
    {i \in DOMAIN bookings :
        /\ bookings[i].listingId = listingId
        /\ bookings[i].status # "cancelled"
        /\ bookings[i].checkIn <= checkOut
        /\ bookings[i].checkOut >= checkIn
        /\ (excludeBookingId # None => i # excludeBookingId[1])}

\* A query that matches only stored stays lying inside the requested one.
HasDateConflict_Inside(listingId, checkIn, checkOut, excludeBookingId) ==
    {i \in DOMAIN bookings :
        /\ bookings[i].listingId = listingId
        /\ bookings[i].status # "cancelled"
        /\ bookings[i].checkIn >= checkIn
        /\ bookings[i].checkOut <= checkOut
        /\ (excludeBookingId # None => i # excludeBookingId[1])}

\* A query without the status filter.
HasDateConflict_AnyStatus(listingId, checkIn, checkOut, excludeBookingId) ==
    {i \in DOMAIN bookings :
        /\ bookings[i].listingId = listingId
        /\ bookings[i].checkIn < checkOut
        /\ bookings[i].checkOut > checkIn
        /\ (excludeBookingId # None => i # excludeBookingId[1])}

\* The documents the query of hasDateConflict matches.
HasDateConflict(listingId, checkIn, checkOut, excludeBookingId) ==
    {i \in DOMAIN bookings :
        /\ bookings[i].listingId = listingId
        /\ bookings[i].status # "cancelled"
        /\ bookings[i].checkIn < checkOut
        /\ bookings[i].checkOut > checkIn
        /\ (excludeBookingId # None => i # excludeBookingId[1])}

\* findOne: one of the matching documents (which one is not specified), or
\* null when there is none.
FindOne(matching) == IF matching = {} THEN {None} ELSE {Some(i) : i \in matching}

NoCall ==
    [called |-> FALSE, listingId |-> "", checkIn |-> 0, checkOut |-> 0,
     excludeBookingId |-> None, result |-> None]

\* hasDateConflict called on its own, as a caller re-checking a booking
\* would call it.
HasDateConflictCall(listingId, checkIn, checkOut, excludeBookingId) ==
    /\ \E r \in FindOne(HasDateConflict(listingId, checkIn, checkOut, excludeBookingId)) :
          call' = [called |-> TRUE, listingId |-> listingId, checkIn |-> checkIn,
                   checkOut |-> checkOut, excludeBookingId |-> excludeBookingId,
                   result |-> r]
    /\ UNCHANGED <<bookings, counter, issued, now, effects, pc, req, loc, started, out>>

\* ------------------------------------------------------- createBooking
\* The request arrives; field validation and the date checks run, and the
\* conflict query is issued.
CreateBooking(p, input) ==
    /\ pc[p] = "idle"
    /\ started < MaxRequests
    /\ started' = started + 1
    /\ LET errors == ValidateFields(input) IN
       IF errors # <<>>
       THEN Respond(p, CreateReq(input), SendError("Validation failed", 400, errors))
       ELSE LET checkInDate == ParseDate(input.checkIn[1])
                checkOutDate == ParseDate(input.checkOut[1])
                nowDate == [valid |-> TRUE, t |-> now]
            IN  IF DateLE(checkInDate, nowDate)
                THEN Respond(p, CreateReq(input),
                             SendError("Validation failed", 400, <<"checkIn">>))
                ELSE IF DateLE(checkOutDate, checkInDate)
                THEN Respond(p, CreateReq(input),
                             SendError("Validation failed", 400, <<"checkOut">>))
                ELSE Await(p, CreateReq(input), "conflict",
                           [NoLoc EXCEPT !.checkInDate = checkInDate,
                                         !.checkOutDate = checkOutDate])
    /\ UNCHANGED <<bookings, counter, issued, now, effects, call>>

\* A handler that takes its booking number while the conflict query runs.
CreateConflict_AllocEarly(p) ==
    /\ pc[p] = "conflict"
    /\ LET ci == loc[p].checkInDate
           co == loc[p].checkOutDate
       IN  \/ /\ Respond(p, req[p], CreateFailed("query"))
              /\ UNCHANGED <<counter, issued>>
           \/ /\ ci.valid /\ co.valid
              /\ counter' = counter + 1
              /\ issued' = Append(issued, counter + 1)
              /\ \E conflictingBooking \in
                        FindOne(HasDateConflict(req[p].input.listingId, ci.t, co.t, None)) :
                   IF conflictingBooking # None
                   THEN Respond(p, req[p],
                          [SendError("The selected dates are not available", 409, <<>>)
                             EXCEPT !.id = conflictingBooking[1]])
                   ELSE Await(p, req[p], "alloc", loc[p])
    /\ UNCHANGED <<bookings, now, effects, started, call>>

\* The conflict query runs against the store; 409 when it finds a booking.
\* A query with an Invalid Date cannot be cast and rejects; so does any
\* query when the store is unreachable.
CreateConflict(p) ==
    /\ pc[p] = "conflict"
    /\ LET ci == loc[p].checkInDate
           co == loc[p].checkOutDate
       IN  \/ Respond(p, req[p], CreateFailed("query"))
           \/ /\ ci.valid /\ co.valid
              /\ \E conflictingBooking \in
                        FindOne(HasDateConflict(req[p].input.listingId, ci.t, co.t, None)) :
                   IF conflictingBooking # None
                   THEN Respond(p, req[p],
                          [SendError("The selected dates are not available", 409, <<>>)
                             EXCEPT !.id = conflictingBooking[1]])
                   ELSE Await(p, req[p], "alloc", loc[p])
    /\ UNCHANGED <<bookings, counter, issued, now, effects, started, call>>

\* getNextBookingNumber: the counter document is incremented atomically
\* and its new value returned.
GetNextBookingNumber == counter + 1

\* A handler in which a lookup that gives no title ends in the catch block.
CreateAlloc_TitleRequired(p) ==
    /\ pc[p] = "alloc"
    /\ \/ /\ Respond(p, req[p], CreateFailed("counter"))
          /\ UNCHANGED <<counter, issued>>
       \/ /\ counter' = GetNextBookingNumber
          /\ issued' = Append(issued, GetNextBookingNumber)
          /\ \E title \in GetListingTitle(req[p].input.listingType, req[p].input.listingId) :
                IF title = None
                THEN Respond(p, req[p], CreateFailed("lookup"))
                ELSE Await(p, req[p], "insert",
                           [loc[p] EXCEPT !.listingTitle = title,
                                          !.bookingNumber = GetNextBookingNumber])
    /\ UNCHANGED <<bookings, now, effects, started, call>>

\* A handler that goes on to the insert when the generator rejected.
CreateAlloc_Unchecked(p) ==
    /\ pc[p] = "alloc"
    /\ \/ /\ UNCHANGED <<counter, issued>>
          /\ \E title \in GetListingTitle(req[p].input.listingType, req[p].input.listingId) :
                Await(p, req[p], "insert", [loc[p] EXCEPT !.listingTitle = title])
       \/ /\ counter' = GetNextBookingNumber
          /\ issued' = Append(issued, GetNextBookingNumber)
          /\ \E title \in GetListingTitle(req[p].input.listingType, req[p].input.listingId) :
                Await(p, req[p], "insert",
                      [loc[p] EXCEPT !.listingTitle = title,
                                     !.bookingNumber = GetNextBookingNumber])
    /\ UNCHANGED <<bookings, now, effects, started, call>>

\* Promise.all([getListingTitle, getNextBookingNumber]): a rejection of the
\* generator rejects the whole and ends in the catch block; getListingTitle
\* never rejects.
CreateAlloc(p) ==
    /\ pc[p] = "alloc"
    /\ \/ /\ Respond(p, req[p], CreateFailed("counter"))
          /\ UNCHANGED <<counter, issued>>
       \/ /\ counter' = GetNextBookingNumber
          /\ issued' = Append(issued, GetNextBookingNumber)
          /\ \E title \in GetListingTitle(req[p].input.listingType, req[p].input.listingId) :
                Await(p, req[p], "insert",
                      [loc[p] EXCEPT !.listingTitle = title,
                                     !.bookingNumber = GetNextBookingNumber])
    /\ UNCHANGED <<bookings, now, effects, started, call>>

\* A booking numbered by counting the listing's bookings.
NewBooking_NumberFromCount(input, l) ==
    [bookingNumber |->
        Cardinality({i \in DOMAIN bookings : bookings[i].listingId = input.listingId}) + 1,
     listingId |-> input.listingId,
     listingTitle |-> l.listingTitle,
     checkIn |-> l.checkInDate.t,
     checkOut |-> l.checkOutDate.t,
     total |-> input.total,
     status |-> "pending",
     paymentStatus |-> "pending",
     cancellationReason |-> None,
     cancelledAt |-> None]

\* new BookingModel({...})
NewBooking(input, l) ==
    [bookingNumber |-> l.bookingNumber,
     listingId |-> input.listingId,
     listingTitle |-> l.listingTitle,
     checkIn |-> l.checkInDate.t,
     checkOut |-> l.checkOutDate.t,
     total |-> input.total,
     status |-> "pending",
     paymentStatus |-> "pending",
     cancellationReason |-> None,
     cancelledAt |-> None]

\* newBooking.save(): the document is inserted, or the save rejects (a
\* schema ValidationError gives 400, anything else 500).
CreateInsert(p) ==
    /\ pc[p] = "insert"
    /\ \/ /\ Respond(p, req[p], CreateFailed("save"))
          /\ UNCHANGED bookings
       \/ /\ Respond(p, req[p], SendError("Validation failed", 400, <<"schema">>))
          /\ UNCHANGED bookings
       \/ /\ bookings' = Append(bookings, NewBooking(req[p].input, loc[p]))
          /\ Respond(p, req[p],
                [NoResp EXCEPT !.code = 201,
                               !.message = "Booking created successfully",
                               !.id = Len(bookings) + 1,
                               !.status = "pending"])
    /\ UNCHANGED <<counter, issued, now, effects, started, call>>

\* A cancelBooking without the guard on completed bookings.
CancelBooking_NoCompletedGuard(p, id, reason) ==
    /\ pc[p] = "idle"
    /\ started < MaxRequests
    /\ started' = started + 1
    /\ \/ Respond(p, CancelReq(id, reason), SendError("Failed to cancel booking", 500, <<>>))
       \/ IF id \notin DOMAIN bookings
          THEN Respond(p, CancelReq(id, reason), SendError("Booking not found", 404, <<>>))
          ELSE IF bookings[id].status = "cancelled"
          THEN Respond(p, CancelReq(id, reason),
                       SendError("This booking is already cancelled", 400, <<>>))
          ELSE Await(p, CancelReq(id, reason), "cancelSave",
                     [NoLoc EXCEPT !.id = id, !.cancelledAt = now,
                                   !.total = bookings[id].total])
    /\ UNCHANGED <<bookings, counter, issued, now, effects, call>>

\* A save that writes the status but not the reason.
CancelSave_StatusOnly(p) ==
    /\ pc[p] = "cancelSave"
    /\ \/ /\ Respond(p, req[p], SendError("Failed to cancel booking", 500, <<>>))
          /\ UNCHANGED <<bookings, effects>>
       \/ LET id == loc[p].id IN
          /\ bookings' = [bookings EXCEPT
                            ![id].status = "cancelled",
                            ![id].cancelledAt = Some(loc[p].cancelledAt)]
          /\ effects' = [effects EXCEPT ![id] = @ \cup {"cancel"}]
          /\ Respond(p, req[p],
                [NoResp EXCEPT !.code = 200,
                               !.message = "Booking cancelled successfully",
                               !.id = id,
                               !.status = "cancelled",
                               !.cancellationReason = Some(req[p].reason),
                               !.cancelledAt = Some(loc[p].cancelledAt),
                               !.refundAmount = loc[p].total,
                               !.refundStatus = "pending"])
    /\ UNCHANGED <<counter, issued, now, started, call>>

\* ------------------------------------------------------- cancelBooking
\* The request arrives, findById runs, the guards are applied to the
\* document read, and the modified document is handed to save().
CancelBooking(p, id, reason) ==
    /\ pc[p] = "idle"
    /\ started < MaxRequests
    /\ started' = started + 1
    /\ \/ Respond(p, CancelReq(id, reason), SendError("Failed to cancel booking", 500, <<>>))
       \/ IF id \notin DOMAIN bookings
          THEN Respond(p, CancelReq(id, reason), SendError("Booking not found", 404, <<>>))
          ELSE IF bookings[id].status = "cancelled"
          THEN Respond(p, CancelReq(id, reason),
                       SendError("This booking is already cancelled", 400, <<>>))
          ELSE IF bookings[id].status = "completed"
          THEN Respond(p, CancelReq(id, reason),
                       SendError("Cannot cancel a completed booking", 400, <<>>))
          ELSE Await(p, CancelReq(id, reason), "cancelSave",
                     [NoLoc EXCEPT !.id = id, !.cancelledAt = now,
                                   !.total = bookings[id].total])
    /\ UNCHANGED <<bookings, counter, issued, now, effects, call>>

\* A save that writes the status and the reason but not cancelledAt.
CancelSave_NoTimestamp(p) ==
    /\ pc[p] = "cancelSave"
    /\ \/ /\ Respond(p, req[p], SendError("Failed to cancel booking", 500, <<>>))
          /\ UNCHANGED <<bookings, effects>>
       \/ LET id == loc[p].id IN
          /\ bookings' = [bookings EXCEPT
                            ![id].status = "cancelled",
                            ![id].cancellationReason = Some(req[p].reason)]
          /\ effects' = [effects EXCEPT ![id] = @ \cup {"cancel"}]
          /\ Respond(p, req[p],
                [NoResp EXCEPT !.code = 200,
                               !.message = "Booking cancelled successfully",
                               !.id = id,
                               !.status = "cancelled",
                               !.cancellationReason = Some(req[p].reason),
                               !.cancelledAt = Some(loc[p].cancelledAt),
                               !.refundAmount = loc[p].total,
                               !.refundStatus = "pending"])
    /\ UNCHANGED <<counter, issued, now, started, call>>

\* booking.save(): the modified paths are written to the stored document,
\* whatever its status is by now; then the success response is built from
\* the document in memory.
CancelSave(p) ==
    /\ pc[p] = "cancelSave"
    /\ \/ /\ Respond(p, req[p], SendError("Failed to cancel booking", 500, <<>>))
          /\ UNCHANGED <<bookings, effects>>
       \/ LET id == loc[p].id IN
          /\ bookings' = [bookings EXCEPT
                            ![id].status = "cancelled",
                            ![id].cancellationReason = Some(req[p].reason),
                            ![id].cancelledAt = Some(loc[p].cancelledAt)]
          /\ effects' = [effects EXCEPT ![id] = @ \cup {"cancel"}]
          /\ Respond(p, req[p],
                [NoResp EXCEPT !.code = 200,
                               !.message = "Booking cancelled successfully",
                               !.id = id,
                               !.status = "cancelled",
                               !.cancellationReason = Some(req[p].reason),
                               !.cancelledAt = Some(loc[p].cancelledAt),
                               !.refundAmount = loc[p].total,
                               !.refundStatus = "pending"])
    /\ UNCHANGED <<counter, issued, now, started, call>>

\* ------------------------------------------- external confirm / complete
\* The transitions made outside this controller.  They keep the contract of
\* the state machine: the status is changed only if it is still the one the
\* guard allows (a guarded update on the record).
ExternalTransition(id, kind) ==
    /\ id \in DOMAIN bookings
    /\ \/ kind = "confirm" /\ bookings[id].status = "pending"
       \/ kind = "complete" /\ bookings[id].status = "confirmed"
    /\ bookings' = [bookings EXCEPT ![id].status =
                        IF kind = "confirm" THEN "confirmed" ELSE "completed"]
    /\ effects' = [effects EXCEPT ![id] = @ \cup {kind}]
    /\ out' = NoResp
    /\ UNCHANGED <<counter, issued, now, pc, req, loc, started, call>>

\* ---------------------------------------------------------------- clock
Tick ==
    /\ now < MaxNow
    /\ now' = now + 1
    /\ out' = NoResp
    /\ UNCHANGED <<bookings, counter, issued, effects, pc, req, loc, started, call>>

\* ------------------------------------------------------- specification
\* A well-formed request body for a stay [checkIn, checkOut) at a listing,
\* priced per night.
Body(listingId, checkIn, checkOut) ==
    [listingType |-> IF listingId = "L2" THEN "guide" ELSE "homestay",
     listingId |-> listingId,
     checkIn |-> Some(checkIn), checkOut |-> Some(checkOut),
     adults |-> Some(1), name |-> "Asha", email |-> "asha@example.org",
     total |-> 100 * (checkOut - checkIn)]

\* The request bodies of the concurrent specification: every pair of days
\* (also past check-ins and empty or reversed ranges), and one body with
\* fields missing.
Inputs ==
    {Body(l, a, b) : l \in ListingIds, a \in Days \ {0}, b \in Days \ {0}}
    \cup {[Body("L1", 1, 2) EXCEPT !.adults = None, !.email = ""]}

Init ==
    /\ bookings = <<>>
    /\ counter = 0
    /\ issued = <<>>
    /\ now = 0
    /\ effects = [i \in BookingIds |-> {}]
    /\ pc = [p \in Procs |-> "idle"]
    /\ req = [p \in Procs |-> NoReq]
    /\ loc = [p \in Procs |-> NoLoc]
    /\ started = 0
    /\ out = NoResp
    /\ call = NoCall

Next ==
    \/ \E p \in Procs, input \in Inputs : CreateBooking(p, input)
    \/ \E p \in Procs : CreateConflict(p)
    \/ \E p \in Procs : CreateAlloc(p)
    \/ \E p \in Procs : CreateInsert(p)
    \/ \E p \in Procs, id \in BookingIds, reason \in Reasons : CancelBooking(p, id, reason)
    \/ \E p \in Procs : CancelSave(p)
    \/ \E id \in BookingIds, kind \in {"confirm", "complete"} : ExternalTransition(id, kind)
    \/ Tick

Spec == Init /\ [][Next]_vars

\* ------------------------------------------- specification: field checks
\* Request bodies with every combination of missing, malformed and
\* well-formed fields, submitted to createBooking.
FieldInputs ==
    [listingType : {"", "hotel", "homestay", "guide"},
     listingId : {"", "L1"},
     checkIn : {None, Some(1), Some(NotADate)},
     checkOut : {None, Some(2), Some(NotADate)},
     adults : {None, Some(0), Some(1)},
     name : {"", "Asha"},
     email : {"", "asha@example.org"},
     total : {100}]

\* An empty store, with one request still to come.
InitFields ==
    /\ bookings = <<>>
    /\ counter = 0
    /\ issued = <<>>
    /\ now = 0
    /\ effects = [i \in BookingIds |-> {}]
    /\ pc = [p \in Procs |-> "idle"]
    /\ req = [p \in Procs |-> NoReq]
    /\ loc = [p \in Procs |-> NoLoc]
    /\ started = MaxRequests - 1
    /\ out = NoResp
    /\ call = NoCall

NextFields == \E p \in Procs, input \in FieldInputs : CreateBooking(p, input)

SpecFields == InitFields /\ [][NextFields]_vars

\* ---------------------------------------- specification: conflict query
Statuses == {"pending", "confirmed", "cancelled", "completed"}

\* A stored booking as createBooking, cancelBooking and the external
\* transitions leave it.
StoredBooking(n, listingId, checkIn, checkOut, status) ==
    [bookingNumber |-> n,
     listingId |-> listingId,
     listingTitle |-> None,
     checkIn |-> checkIn,
     checkOut |-> checkOut,
     total |-> 100 * (checkOut - checkIn),
     status |-> status,
     paymentStatus |-> "pending",
     cancellationReason |-> IF status = "cancelled" THEN Some("plans changed") ELSE None,
     cancelledAt |-> IF status = "cancelled" THEN Some(0) ELSE None]

Stays == {<<a, b>> \in (Days \ {0}) \X (Days \ {0}) : a < b}

\* The query is run over every store of at most MaxStored bookings,
\* numbered in insertion order.
MaxStored == 2

StoredChoices == ListingIds \X Stays \X Statuses

InitQuery ==
    /\ \E n \in 0..MaxStored : \E f \in [1..n -> StoredChoices] :
          bookings = [i \in 1..n |->
                        StoredBooking(i, f[i][1], f[i][2][1], f[i][2][2], f[i][3])]
    /\ counter = Len(bookings)
    /\ issued = [i \in 1..Len(bookings) |-> i]
    /\ now = 0
    /\ effects = [i \in BookingIds |-> {}]
    /\ pc = [p \in Procs |-> "idle"]
    /\ req = [p \in Procs |-> NoReq]
    /\ loc = [p \in Procs |-> NoLoc]
    /\ started = 0
    /\ out = NoResp
    /\ call = NoCall

\* One call per run: a second call would only repeat a first one.
NextQuery ==
    /\ ~call.called
    /\ \E listingId \in ListingIds, stay \in Stays,
          excludeBookingId \in {None} \cup {Some(i) : i \in 1..MaxStored} :
            HasDateConflictCall(listingId, stay[1], stay[2], excludeBookingId)

SpecQuery == InitQuery /\ [][NextQuery]_vars

\* ================================================================ claims
\* The nights of a stay [checkIn, checkOut).
Nights(checkIn, checkOut) == {d \in Days : checkIn <= d /\ d < checkOut}

\* Stored booking i is on the listing, is not cancelled and shares a night
\* with the stay [checkIn, checkOut).
Blocks(i, listingId, checkIn, checkOut) ==
    /\ bookings[i].listingId = listingId
    /\ bookings[i].status # "cancelled"
    /\ Nights(bookings[i].checkIn, bookings[i].checkOut) \cap Nights(checkIn, checkOut) # {}

\* C1: in every reachable state, two distinct stored bookings of the same
\* listing that are both not cancelled have disjoint [checkIn, checkOut)
\* intervals.
C1_NoOverlap ==
    \A i, j \in DOMAIN bookings :
        (i # j /\ bookings[j].status # "cancelled")
            => ~Blocks(i, bookings[j].listingId, bookings[j].checkIn, bookings[j].checkOut)

\* C2: a cancellation and a completion of the same booking never both take
\* effect.
C2_CancelCompleteExclusive ==
    \A i \in BookingIds : ~({"cancel", "complete"} \subseteq effects[i])

\* C3: every value the sequence generator returns is greater than all it
\* returned before, and the stored bookings have pairwise distinct
\* bookingNumbers.
C3_DistinctNumbers ==
    /\ \A i, j \in DOMAIN issued : i < j => issued[i] < issued[j]
    /\ \A i, j \in DOMAIN bookings :
          i # j => bookings[i].bookingNumber # bookings[j].bookingNumber

\* Three numbers were handed out to concurrent requests, one of them lost to
\* a failed insert, and two bookings are stored.
C3_Witness == Len(bookings) = 2 /\ Len(issued) = 3

\* The edges of the booking state machine.
Edges ==
    {<<"pending", "cancelled">>, <<"pending", "confirmed">>,
     <<"confirmed", "cancelled">>, <<"confirmed", "completed">>}

\* C4: a booking's status changes only along pending->cancelled,
\* pending->confirmed, confirmed->cancelled and confirmed->completed, so a
\* cancelled or completed booking never changes status again.
C4_LegalEdges ==
    [][\A i \in DOMAIN bookings :
          \/ bookings'[i].status = bookings[i].status
          \/ <<bookings[i].status, bookings'[i].status>> \in Edges]_vars

\* C5: when cancelBooking's lookup does not itself fail, an id that is not
\* stored gets 404 'Booking not found', a cancelled booking gets 400 'This
\* booking is already cancelled', a completed booking gets 400 'Cannot
\* cancel a completed booking'; in all three cases (and when the lookup
\* fails) the request ends there and no stored booking is modified.
C5_CancelRejections ==
    [][\A p \in Procs, id \in BookingIds, reason \in Reasons :
          CancelBooking(p, id, reason) =>
             LET missing == id \notin DOMAIN bookings
                 status == IF missing THEN "" ELSE bookings[id].status
             IN  (missing \/ status \in {"cancelled", "completed"}) =>
                    /\ bookings' = bookings
                    /\ pc'[p] = "idle"
                    /\ out'.code \in {400, 404, 500}
                    /\ out'.code # 500 =>
                         /\ missing =>
                              out'.code = 404 /\ out'.message = "Booking not found"
                         /\ status = "cancelled" =>
                              /\ out'.code = 400
                              /\ out'.message = "This booking is already cancelled"
                         /\ status = "completed" =>
                              /\ out'.code = 400
                              /\ out'.message = "Cannot cancel a completed booking"]_vars

\* A cancellation of a completed booking has just been refused.
C5_Witness ==
    /\ out.message = "Cannot cancel a completed booking"
    /\ \E i \in DOMAIN bookings : bookings[i].status = "completed"

\* C6: cancelBooking on a pending or confirmed booking goes on to save the
\* cancellation, and when the save does not fail the stored booking has
\* status cancelled, the supplied reason and a cancelledAt, and the response
\* is 200 with refundAmount equal to the stored total and refundStatus
\* pending.
C6_CancelEffect ==
    [][/\ \A p \in Procs, id \in BookingIds, reason \in Reasons :
             (/\ CancelBooking(p, id, reason)
              /\ id \in DOMAIN bookings
              /\ out'.code # 500)
                => (bookings[id].status \in {"pending", "confirmed"}
                      => /\ pc'[p] = "cancelSave"
                         /\ req'[p].reason = reason
                         /\ loc'[p].id = id)
       /\ \A p \in Procs :
             (CancelSave(p) /\ out'.code # 500) =>
                LET id == loc[p].id IN
                /\ bookings'[id].status = "cancelled"
                /\ bookings'[id].cancellationReason = Some(req[p].reason)
                /\ bookings'[id].cancelledAt # None
                /\ out'.code = 200
                /\ out'.id = id
                /\ out'.refundAmount = bookings'[id].total
                /\ out'.refundStatus = "pending"]_vars

\* A two-night booking has just been cancelled and its total refunded.
C6_Witness ==
    /\ out.code = 200
    /\ out.refundAmount = 200
    /\ out.id \in DOMAIN bookings
    /\ bookings[out.id].status = "cancelled"
    /\ bookings[out.id].cancellationReason # None

\* C7: hasDateConflict returns a booking exactly when some stored booking of
\* the listing, not cancelled and not the excluded one, has [a, b) with
\* a < checkOut and b > checkIn; the booking returned is such a booking; a
\* stored booking that only touches the stay is never returned.
C7_ConflictQuery ==
    call.called =>
        LET hits == {i \in DOMAIN bookings :
                        /\ bookings[i].listingId = call.listingId
                        /\ bookings[i].status # "cancelled"
                        /\ (call.excludeBookingId = None \/ Some(i) # call.excludeBookingId)
                        /\ bookings[i].checkIn < call.checkOut
                        /\ bookings[i].checkOut > call.checkIn}
        IN  /\ (call.result # None) <=> (hits # {})
            /\ call.result # None => call.result[1] \in hits
            /\ \A i \in DOMAIN bookings :
                  (\/ bookings[i].checkOut = call.checkIn
                   \/ bookings[i].checkIn = call.checkOut) => call.result # Some(i)

\* The query found nothing although an active booking of the listing ends
\* on the stay's first day and the overlapping booking is the excluded one.
C7_Witness ==
    /\ call.called
    /\ call.result = None
    /\ call.excludeBookingId # None
    /\ \E i, j \in DOMAIN bookings :
          /\ Blocks(i, call.listingId, call.checkIn, call.checkOut)
          /\ Some(i) = call.excludeBookingId
          /\ bookings[j].listingId = call.listingId
          /\ bookings[j].status # "cancelled"
          /\ bookings[j].checkOut = call.checkIn

\* C8: when the conflict check of a createBooking request runs (and the
\* query does not fail) while an active booking of the listing shares a
\* night with the requested stay, the request is answered 409, the booking
\* named in the answer is such a booking, and no booking is inserted.
C8_ConflictRejected ==
    [][\A p \in Procs :
          CreateConflict(p) =>
             LET input == req[p].input
                 blocking == {i \in DOMAIN bookings :
                                Blocks(i, input.listingId, input.checkIn[1], input.checkOut[1])}
             IN  blocking # {} =>
                    /\ bookings' = bookings
                    /\ pc'[p] = "idle"
                    /\ out'.code \in {409, 500}
                    /\ out'.code = 409 => out'.id \in blocking]_vars

\* A request has just been answered 409.
C8_Witness ==
    /\ out.code = 409
    /\ out.id \in DOMAIN bookings
    /\ bookings[out.id].status # "cancelled"

\* C9: a createBooking request whose stay shares a night only with cancelled
\* bookings of the listing is not answered 409; unless the counter or the
\* store fails it goes on to allocate a number and insert the booking, and
\* is answered 201.
C9_CancelFrees ==
    [][\A p \in Procs :
          /\ CreateConflict(p) =>
                LET input == req[p].input IN
                (\A i \in DOMAIN bookings :
                    ~Blocks(i, input.listingId, input.checkIn[1], input.checkOut[1]))
                  => /\ out'.code # 409
                     /\ out'.code # 500 => pc'[p] = "alloc"
          /\ (CreateAlloc(p) /\ out'.code # 500) => pc'[p] = "insert"
          /\ (CreateInsert(p) /\ out'.code \notin {400, 500}) =>
                /\ out'.code = 201
                /\ Len(bookings') = Len(bookings) + 1
                /\ bookings'[out'.id].listingId = req[p].input.listingId
                /\ bookings'[out'.id].checkIn = req[p].input.checkIn[1]
                /\ bookings'[out'.id].checkOut = req[p].input.checkOut[1]
                /\ bookings'[out'.id].status = "pending"]_vars

\* A booking has just been created over the nights of a cancelled booking of
\* the same listing.
C9_Witness ==
    /\ out.code = 201
    /\ out.id \in DOMAIN bookings
    /\ \E i \in DOMAIN bookings :
          /\ i < out.id
          /\ bookings[i].status = "cancelled"
          /\ bookings[i].listingId = bookings[out.id].listingId
          /\ Nights(bookings[i].checkIn, bookings[i].checkOut)
                \cap Nights(bookings[out.id].checkIn, bookings[out.id].checkOut) # {}

\* The field rules of createBooking a request body violates.
Violated(input) ==
    (IF input.listingType \notin {"homestay", "guide"} THEN {"listingType"} ELSE {})
    \cup (IF input.listingId = "" THEN {"listingId"} ELSE {})
    \cup (IF input.checkIn = None THEN {"checkIn"} ELSE {})
    \cup (IF input.checkOut = None THEN {"checkOut"} ELSE {})
    \cup (IF input.adults = None THEN {"guests.adults"}
          ELSE IF input.adults[1] < 1 THEN {"guests.adults"} ELSE {})
    \cup (IF input.name = "" THEN {"guestDetails.name"} ELSE {})
    \cup (IF input.email = "" THEN {"guestDetails.email"} ELSE {})

\* C10: a createBooking request that violates field rules is answered 400
\* with one error for every violated field and none for any other field.
C10_AllFieldErrors ==
    [][\A p \in Procs, input \in FieldInputs :
          (CreateBooking(p, input) /\ Violated(input) # {}) =>
             /\ out'.code = 400
             /\ {out'.errors[k] : k \in DOMAIN out'.errors} = Violated(input)
             /\ Len(out'.errors) = Cardinality(Violated(input))
             /\ pc'[p] = "idle"]_vars

\* A request has just been answered with the errors of two fields.
C10_Witness == out.errors = <<"guests.adults", "guestDetails.email">>

\* C11: the date-range checks of createBooking are a second phase.  A body
\* with field errors is answered with its field errors alone, whatever its
\* dates are; a body without field errors whose checkIn is not after the
\* clock is answered 400 with the single error checkIn; otherwise one whose
\* checkOut is not after its checkIn is answered 400 with the single error
\* checkOut; otherwise the request goes on to the conflict query.  None of
\* these steps stores a booking.
C11_DateRangePhase ==
    [][\A p \in Procs, input \in Inputs :
          CreateBooking(p, input) =>
             /\ bookings' = bookings
             /\ IF Violated(input) # {}
                THEN /\ out'.code = 400
                     /\ {out'.errors[k] : k \in DOMAIN out'.errors} = Violated(input)
                     /\ Len(out'.errors) = Cardinality(Violated(input))
                ELSE IF input.checkIn[1] <= now
                THEN out' = SendError("Validation failed", 400, <<"checkIn">>)
                ELSE IF input.checkOut[1] <= input.checkIn[1]
                THEN out' = SendError("Validation failed", 400, <<"checkOut">>)
                ELSE out' = NoResp /\ pc'[p] = "conflict"]_vars

\* A request whose checkIn is the current day, the clock having advanced,
\* has just been answered with the single error checkIn.
C11_Witness == now = MaxNow /\ out.code = 400 /\ out.errors = <<"checkIn">>

\* C12: when getNextBookingNumber rejects, createBooking answers with the
\* failure response and returns without inserting a booking; and the
\* bookingNumber of every stored booking is a value the generator returned.
C12_NumberFromGenerator ==
    [][/\ \A i \in DOMAIN bookings' :
             \E k \in DOMAIN issued' : issued'[k] = bookings'[i].bookingNumber
       /\ \A p \in Procs :
             (CreateAlloc(p) /\ counter' = counter) =>
                /\ out'.code = 500
                /\ out'.message = "Failed to create booking"
                /\ pc'[p] = "idle"
                /\ bookings' = bookings]_vars

\* The generator has just rejected for a request, a booking numbered by it
\* being stored already.
C12_Witness ==
    /\ out.code = 500
    /\ out.thrown = "counter"
    /\ Len(bookings) = 1
    /\ bookings[1].bookingNumber = issued[1]

\* C13: a listing title lookup that fails or finds nothing never fails
\* createBooking.  Once the generator has returned a number the request goes
\* on to the insert whatever the lookup gave, and an insert the store
\* accepts answers 201 and stores the booking with the title the lookup
\* gave, absent when it gave none.
C13_TitleBestEffort ==
    [][\A p \in Procs :
          /\ (CreateAlloc(p) /\ counter' # counter) =>
                /\ out' = NoResp
                /\ pc'[p] = "insert"
                /\ loc'[p].listingTitle
                      \in {None, HomestayTitle(req[p].input.listingId),
                           GuideName(req[p].input.listingId)}
          /\ (CreateInsert(p) /\ out'.code \notin {400, 500}) =>
                /\ out'.code = 201
                /\ Len(bookings') = Len(bookings) + 1
                /\ bookings'[out'.id].listingTitle = loc[p].listingTitle]_vars

\* A booking of a listing that has a title has just been created without
\* one: the lookup failed and the request was answered 201.
C13_Witness ==
    /\ out.code = 201
    /\ bookings[out.id].listingId = "L1"
    /\ bookings[out.id].listingTitle = None

\* C14: a createBooking step that answers with a field-validation error, a
\* date-range error or the conflict error leaves the stored bookings and the
\* counter as they were, as does every step of the conflict check; and the
\* counter advances only in the step of a request that has passed field
\* validation, the date checks and the conflict check.
C14_RejectionNoEffect ==
    [][/\ (/\ out'.message \in {"Validation failed", "The selected dates are not available"}
           /\ out'.errors # <<"schema">>)
          => (bookings' = bookings /\ counter' = counter /\ issued' = issued)
       /\ \A p \in Procs :
             CreateConflict(p) =>
                (bookings' = bookings /\ counter' = counter /\ issued' = issued)
       /\ (counter' # counter) =>
             \E p \in Procs :
                /\ pc[p] = "alloc"
                /\ pc'[p] = "insert"
                /\ Violated(req[p].input) = {}
                /\ loc[p].checkInDate.valid
                /\ loc[p].checkOutDate.valid
                /\ loc[p].checkInDate.t < loc[p].checkOutDate.t]_vars

\* A request has just been refused for a conflict with the one stored
\* booking, and the counter still stands at that booking's number.
C14_Witness ==
    /\ out.code = 409
    /\ Len(bookings) = 1
    /\ counter = bookings[1].bookingNumber
    /\ Len(issued) = 1

\* C15: after every step, whatever creations, cancellations and external
\* confirm/complete transitions have interleaved, a stored booking has
\* cancelledAt or cancellationReason set only if its status is cancelled,
\* every cancelled booking has cancelledAt set, and a booking stored by this
\* step is pending, with paymentStatus pending and neither field set.
C15_CancelFieldsConsistent ==
    [][\A i \in DOMAIN bookings' :
          LET b == bookings'[i] IN
          /\ (b.cancelledAt # None \/ b.cancellationReason # None)
                => b.status = "cancelled"
          /\ b.status = "cancelled" => b.cancelledAt # None
          /\ i \notin DOMAIN bookings =>
                /\ b.status = "pending"
                /\ b.paymentStatus = "pending"
                /\ b.cancelledAt = None
                /\ b.cancellationReason = None]_vars

\* A cancellation has been saved over a booking that an external transition
\* had completed in the meantime.
C15_Witness ==
    \E i \in DOMAIN bookings :
       /\ {"complete", "cancel"} \subseteq effects[i]
       /\ bookings[i].status = "cancelled"
       /\ bookings[i].cancelledAt # None

\* C16: for one booking, cancelBooking reports success (and with it a
\* refundAmount) at most once, however many cancelBooking requests run
\* concurrently: no save of a cancellation answers 200 for a booking whose
\* cancellation has been reported already.
C16_CancelOnce ==
    [][\A p \in Procs :
          (CancelSave(p) /\ out'.code = 200) => "cancel" \notin effects[loc[p].id]]_vars

\* C17: a createBooking request whose checkIn or checkOut is present but
\* does not parse as a date is answered 400 by field validation and returns
\* there: it never goes on to the date comparisons' successor, the conflict
\* query, nor to the counter or the insert.
C17_UnparseableRejected ==
    [][\A p \in Procs, input \in FieldInputs :
          (/\ CreateBooking(p, input)
           /\ \/ input.checkIn = Some(NotADate)
              \/ input.checkOut = Some(NotADate))
          => (/\ out'.code = 400
              /\ out'.message = "Validation failed"
              /\ pc'[p] = "idle")]_vars

====
